---- MODULE Spec2Model ----
(***************************************************************************)
(* The exam-attempt lifecycle of the exam platform: the ExamLayout screen  *)
(* (question/answer state machine, countdown and auto-submit, fullscreen   *)
(* request, attempt creation and submission) together with the attempt     *)
(* service it talks to.                                                    *)
(*                                                                         *)
(* React state is modelled by one variable per useState hook.  An action   *)
(* is one event of the single-threaded client (a click, a timer callback,  *)
(* the continuation of an awaited fetch) or one request handled by the     *)
(* service; the effects (useEffect) that the event's state change triggers *)
(* are part of the action, through AfterRender.                            *)
(*                                                                         *)
(* Indexes: the source's arrays are 0-based, sequences here are 1-based:   *)
(* questionState[i + 1] is the source's questionState[i].                  *)
(***************************************************************************)
EXTENDS Integers, Sequences, FiniteSets, TLC

\* ---------------------------------------------------------------- bounds
MaxQuestions == 2
MaxDurationMinutes == 1
MaxCreateCalls == 1
MaxServiceCalls == 4
MaxAttempts == 2
MaxStartSeconds == 1
MaxLosses == 2
MaxSources == 2
MaxFormSubmits == 2

\* ------------------------------------------------------ program constants
NumOptions == 4
SecondsPerMinute == 60
MinDurationMinutes == 1
DefaultMarks == 4
DefaultNegativeMarks == 1

\* null / undefined of the source (ids, option indexes and counters are >= 0)
NULL == 0 - 1

Statuses == {"notVisited", "notAnswered", "answered", "marked", "answeredMarked"}

VARIABLES
  \* the exam as the catalog and the service hold it
  exam,
  \* ExamLayout's React state
  loading, error, studentDetails, questions, currentIndex, questionState,
  timeRemaining, timeOver, attemptId, submitted, submitting, isFullscreen, results,
  \* the browser: the document's fullscreen state and the two pending timeouts
  docFullscreen, fsEffectTimer, fsRetryTimer,
  \* calls in flight: handleStudentDetailsSubmit, handleSubmit, autoSubmit
  createCalls, mCall, aCall,
  \* history: how many times the auto-submit effect handled the expiry
  expiryCount,
  \* the attempt service: one record per attempt, the index is the attempt id
  srvAttempts,
  \* direct calls of the service (SpecService) and what the last one returned
  svcCalls, svcLast,
  \* history: the handler that ran last ("clearAfterSelect" is a clear that
  \* directly follows a select)
  lastEvent,
  \* proctoring: the calls of handleFullscreenChange that reported an exit
  \* and wait for the answer, and the pending 100 ms re-request timeouts
  exitCalls, reenterTimers,
  \* history: fullscreen losses of the document during the attempt, exit
  \* reports sent to the service, warnings shown
  losses, exitReports, warnings,
  \* the browser: the exit warning's alert() is on display; the call returns,
  \* and the client's thread runs again, when the student clicks OK
  alertOpen

vars == <<exam, loading, error, studentDetails, questions, currentIndex, questionState,
          timeRemaining, timeOver, attemptId, submitted, submitting, isFullscreen,
          results, docFullscreen, fsEffectTimer, fsRetryTimer, createCalls, mCall,
          aCall, expiryCount, srvAttempts, svcCalls, svcLast, lastEvent,
          exitCalls, reenterTimers, losses, exitReports, warnings, alertOpen>>

proctorVars == <<exitCalls, reenterTimers, losses, exitReports, warnings, alertOpen>>

clientVars == <<loading, error, studentDetails, questions, currentIndex, questionState,
                timeRemaining, timeOver, attemptId, submitted, submitting,
                isFullscreen, results, docFullscreen, fsEffectTimer, fsRetryTimer,
                createCalls, mCall, aCall, expiryCount, lastEvent,
                exitCalls, reenterTimers, losses, exitReports, warnings, alertOpen>>

\* ------------------------------------------------------------- the exam
\* A question as the teacher's form creates it: four options, the correct
\* option 1..4, marks and negative marks.
QuestionOf(qid, key, marks, neg) ==
  [id |-> qid, correct_option |-> key, marks |-> marks, negative_marks |-> neg]

\* The exam a session runs against: n questions with the form's default
\* marks; the answer key cycles through the options.
SessionExam(n, minutes) ==
  [duration_minutes |-> minutes,
   questions |-> [p \in 1..n |->
                    QuestionOf(p, ((p - 1) % NumOptions) + 1, DefaultMarks,
                               DefaultNegativeMarks)]]

\* JavaScript truthiness of attemptId / attemptData.id: null and 0 are falsy.
Truthy(id) == id # NULL /\ id # 0

NoCall == [st |-> "idle", attempt |-> NULL, answers |-> <<>>, body |-> <<>>]

\* ------------------------------------------------- the attempt service
\* createAttempt: an attempt with one empty AnswerRecord per question.
NewAttempt(ex) ==
  [submitted |-> FALSE,
   answers |-> [p \in 1..Len(ex.questions) |-> NULL],
   fullscreen_exits |-> 0,
   result |-> <<>>,
   passes |-> 0]

\* submit writes each answer of the request into the AnswerRecord of its
\* question; a question the request does not name keeps its record.
WriteAnswers(ex, stored, payload) ==
  [p \in 1..Len(ex.questions) |->
     IF \E k \in 1..Len(payload) : payload[k].question_id = ex.questions[p].id
       THEN payload[CHOOSE k \in 1..Len(payload) :
                      payload[k].question_id = ex.questions[p].id].selected_option
       ELSE stored[p]]

\* One question's contribution to the Result r.
ScoreQuestion_NoNegative(q, selected, r) ==
  IF selected = NULL
    THEN [r EXCEPT !.not_attempted = @ + 1]
    ELSE IF selected = q.correct_option
      THEN [r EXCEPT !.attempted = @ + 1, !.correct = @ + 1,
                     !.total_score = @ + q.marks]
      ELSE [r EXCEPT !.attempted = @ + 1, !.wrong = @ + 1]
ScoreQuestion(q, selected, r) ==
  IF selected = NULL
    THEN [r EXCEPT !.not_attempted = @ + 1]
    ELSE IF selected = q.correct_option
      THEN [r EXCEPT !.attempted = @ + 1, !.correct = @ + 1,
                     !.total_score = @ + q.marks]
      ELSE [r EXCEPT !.attempted = @ + 1, !.wrong = @ + 1,
                     !.total_score = @ - q.negative_marks]

RECURSIVE ScoreFrom(_, _, _, _)
ScoreFrom(qs, answers, p, r) ==
  IF p > Len(qs) THEN r
  ELSE ScoreFrom(qs, answers, p + 1, ScoreQuestion(qs[p], answers[p], r))

\* The Result of an attempt, from its AnswerRecords and the answer key.
ComputeResult(ex, answers) ==
  ScoreFrom(ex.questions, answers, 1,
            [total_score |-> 0, total_questions |-> Len(ex.questions),
             attempted |-> 0, correct |-> 0, wrong |-> 0, not_attempted |-> 0])

\* submit is refused (AlreadySubmitted) once the attempt is submitted.
SubmitAccepted_NoGuard(att) == TRUE
SubmitAccepted(att) == ~att.submitted

\* submit, accepted: answers written, attempt marked submitted, Result computed.
SubmitAttempt(ex, att, payload) ==
  LET written == WriteAnswers(ex, att.answers, payload)
  IN [att EXCEPT !.answers = written,
                 !.submitted = TRUE,
                 !.result = <<ComputeResult(ex, written)>>,
                 !.passes = @ + 1]

\* getResult answers only for a submitted attempt (NotReady otherwise).
ResultReady(att) == att.submitted

\* recordProctoringExit
RecordExit(att) == [att EXCEPT !.fullscreen_exits = @ + 1]

\* ------------------------------------------------- ExamLayout, helpers
\* The answers of a submit request: one per loaded question, the selection
\* converted from 0-based to 1-based, null when nothing is selected.
Answers_ZeroBased(qs, state) ==
  [p \in 1..Len(qs) |->
     [question_id |-> qs[p],
      selected_option |->
        IF p <= Len(state) /\ state[p].selectedOptionIndex # NULL
          THEN state[p].selectedOptionIndex
          ELSE NULL]]
Answers(qs, state) ==
  [p \in 1..Len(qs) |->
     [question_id |-> qs[p],
      selected_option |->
        IF p <= Len(state) /\ state[p].selectedOptionIndex # NULL
          THEN state[p].selectedOptionIndex + 1
          ELSE NULL]]

\* handleStudentDetailsSubmit's initialState
InitialState_AllNotVisited(qs) ==
  [p \in 1..Len(qs) |-> [selectedOptionIndex |-> NULL, status |-> "notVisited"]]
InitialState(qs) ==
  [p \in 1..Len(qs) |->
     [selectedOptionIndex |-> NULL,
      status |-> IF p - 1 = 0 THEN "notAnswered" ELSE "notVisited"]]

\* fetchExam's totalSeconds
TotalSeconds(minutes) == minutes * SecondsPerMinute

\* The countdown's updater: prev - 1, never below zero.
TickResult(prev) == IF prev - 1 < 0 THEN 0 ELSE prev - 1

\* The countdown effect keeps an interval exactly in these states.
TimerRunning == ~(timeRemaining <= 0 \/ timeOver \/ submitted)

\* The auto-submit effect's condition.
ExpiryCond_NoTimeOver(tr, to, sub, aid) == tr = 0 /\ ~sub /\ Truthy(aid)
ExpiryCond(tr, to, sub, aid) == tr = 0 /\ ~to /\ ~sub /\ Truthy(aid)

\* The exam screen (questions, options, action buttons, palette) is what
\* the component renders; the earlier returns of the render show the form,
\* the "no questions" notice, the error page or the closing page instead.
ExamScreenShown ==
  /\ ~loading
  /\ studentDetails
  /\ currentIndex < Len(questions)
  /\ error = "none"
  /\ ~(timeOver \/ submitted)

\* Option inputs, action buttons, Back/Next and the palette: disabled={timeOver}
AnswerControlsEnabled_NoLock ==
  ~loading /\ studentDetails /\ currentIndex < Len(questions) /\ error = "none"
    /\ ~submitted
AnswerControlsEnabled == ExamScreenShown /\ ~timeOver

\* The Submit button: disabled={submitted || submitting || !attemptId}
SubmitButtonEnabled == ExamScreenShown /\ ~(submitted \/ submitting \/ ~Truthy(attemptId))

\* The student details form is rendered while studentDetails is null.
FormShown == ~loading /\ ~studentDetails

\* ------------------------------------------------- render and effects
\* The state a handler leaves behind, before the effects of the render run.
Now ==
  [timeRemaining |-> timeRemaining, attemptId |-> attemptId,
   studentDetails |-> studentDetails, submitted |-> submitted,
   questionState |-> questionState, isFullscreen |-> isFullscreen,
   docFullscreen |-> docFullscreen, fsEffectTimer |-> fsEffectTimer,
   aCall |-> aCall]

\* The effects that follow a handler's state change s, to their fixpoint:
\*  - auto-submit effect (deps timeRemaining, timeOver, submitted, attemptId,
\*    questions, questionState): on expiry set timeOver and send the submit
\*    request with the answers of this render; setTimeOver changes a
\*    dependency, so the effect is evaluated once more with timeOver set;
\*  - fullscreen request effect (deps studentDetails, attemptId, submitted,
\*    timeOver): its cleanup clears the 500 ms timeout, and while the attempt
\*    is active it sets the timeout again, or sets isFullscreen when the
\*    document already is fullscreen;
\*  - exit effect: once submitted or timeOver, exitFullscreen(), which sets
\*    isFullscreen to false unless document.exitFullscreen() rejects (the
\*    document is not fullscreen).
\* No handler, timer callback or continuation runs, and nothing renders,
\* while the thread is inside the exit warning's alert().
AfterRender(s) ==
  LET autoDeps == \/ s.timeRemaining # timeRemaining
                  \/ s.submitted # submitted
                  \/ s.attemptId # attemptId
                  \/ s.questionState # questionState
      expire == autoDeps /\ ExpiryCond(s.timeRemaining, timeOver, s.submitted, s.attemptId)
      again == expire /\ ~timeOver
                 /\ ExpiryCond(s.timeRemaining, TRUE, s.submitted, s.attemptId)
      to == timeOver \/ expire
      stopped == s.submitted \/ to
      active == s.studentDetails /\ Truthy(s.attemptId) /\ ~stopped
      depsChanged == \/ s.studentDetails # studentDetails
                     \/ s.attemptId # attemptId
                     \/ s.submitted # submitted
                     \/ to # timeOver
      isFs == IF depsChanged /\ active /\ s.docFullscreen THEN TRUE ELSE s.isFullscreen
      exits == stopped /\ isFs /\ s.docFullscreen
  IN /\ ~alertOpen
     /\ timeRemaining' = s.timeRemaining
     /\ attemptId' = s.attemptId
     /\ studentDetails' = s.studentDetails
     /\ submitted' = s.submitted
     /\ questionState' = s.questionState
     /\ timeOver' = to
     /\ expiryCount' = expiryCount + (IF expire THEN 1 ELSE 0) + (IF again THEN 1 ELSE 0)
     /\ aCall' = IF expire
                   THEN [st |-> "submitReq", attempt |-> s.attemptId,
                         answers |-> Answers(questions, s.questionState),
                         body |-> <<>>]
                   ELSE s.aCall
     /\ fsEffectTimer' = IF depsChanged THEN active /\ ~s.docFullscreen
                         ELSE s.fsEffectTimer
     /\ docFullscreen' = IF exits THEN FALSE ELSE s.docFullscreen
     /\ isFullscreen' = IF exits THEN FALSE ELSE isFs

\* ------------------------------------------------------------ fetchExam
FetchExamOk ==
  /\ loading
  /\ questions' = [p \in 1..Len(exam.questions) |-> exam.questions[p].id]
  /\ loading' = FALSE
  /\ AfterRender([Now EXCEPT !.timeRemaining = TotalSeconds(exam.duration_minutes)])
  /\ lastEvent' = "fetchExam"
  /\ UNCHANGED proctorVars
  /\ UNCHANGED <<exam, error, currentIndex, submitting, results, fsRetryTimer,
                 createCalls, mCall, srvAttempts, svcCalls, svcLast>>

FetchExamFail ==
  /\ loading
  /\ error' = "load"
  /\ loading' = FALSE
  /\ AfterRender(Now)
  /\ lastEvent' = "fetchExam"
  /\ UNCHANGED proctorVars
  /\ UNCHANGED <<exam, questions, currentIndex, submitting, results, fsRetryTimer,
                 createCalls, mCall, srvAttempts, svcCalls, svcLast>>

\* ------------------------------------------- handleStudentDetailsSubmit
\* The form's onSubmit: clear the error and send the create-attempt request.
\* Nothing in the handler or the form tells a request in flight; max bounds
\* the number of times the form is submitted.
SubmitDetailsUpTo(max) ==
  /\ FormShown
  /\ Len(createCalls) < max
  /\ error' = "none"
  /\ createCalls' = Append(createCalls, [st |-> "req", id |-> 0])
  /\ AfterRender(Now)
  /\ lastEvent' = "submitDetails"
  /\ UNCHANGED proctorVars
  /\ UNCHANGED <<exam, loading, questions, currentIndex, submitting, results,
                 fsRetryTimer, mCall, srvAttempts, svcCalls, svcLast>>

SubmitDetails == SubmitDetailsUpTo(MaxCreateCalls)

\* The service handles a create-attempt request: a new attempt and its id,
\* or a rejection; "noid" is a 2xx response whose body carries no id.
ServerCreateAttempt(c) ==
  /\ createCalls[c].st = "req"
  /\ \/ /\ Len(exam.questions) >= 1
        /\ srvAttempts' = Append(srvAttempts, NewAttempt(exam))
        /\ createCalls' = [createCalls EXCEPT ![c] = [st |-> "ok", id |-> Len(srvAttempts) + 1]]
     \/ /\ createCalls' = [createCalls EXCEPT ![c] = [st |-> "notok", id |-> 0]]
        /\ UNCHANGED srvAttempts
     \/ /\ createCalls' = [createCalls EXCEPT ![c] = [st |-> "noid", id |-> 0]]
        /\ UNCHANGED srvAttempts
  /\ UNCHANGED <<exam, loading, error, studentDetails, questions, currentIndex,
                 questionState, timeRemaining, timeOver, attemptId, submitted,
                 submitting, isFullscreen, results, docFullscreen, fsEffectTimer,
                 fsRetryTimer, mCall, aCall, expiryCount, svcCalls, svcLast>>
  /\ lastEvent' = "serverCreate"
  /\ UNCHANGED proctorVars

\* The response arrives with an attempt id: store it, set the student
\* details, initialize the question states, show the first question.
CreateAttemptStarted(c) ==
  /\ createCalls[c].st = "ok"
  /\ Truthy(createCalls[c].id)
  /\ createCalls' = [createCalls EXCEPT ![c].st = "started"]
  /\ currentIndex' = 0
  /\ AfterRender([Now EXCEPT !.attemptId = createCalls[c].id,
                             !.studentDetails = TRUE,
                             !.questionState = InitialState(questions)])
  /\ lastEvent' = "attemptStarted"
  /\ UNCHANGED proctorVars
  /\ UNCHANGED <<exam, loading, error, questions, submitting, results, fsRetryTimer,
                 mCall, srvAttempts, svcCalls, svcLast>>

\* The request fails: the network (the request or its response is lost), a
\* non-OK response, or a response without an id. Only the error is set.
CreateAttemptFailed(c) ==
  /\ \/ /\ createCalls[c].st \in {"req", "ok", "notok", "noid"}
        /\ error' = "connect"
     \/ /\ createCalls[c].st = "notok"
        /\ error' = "server"
     \/ /\ createCalls[c].st = "noid"
        /\ error' = "noid"
  /\ createCalls' = [createCalls EXCEPT ![c].st = "failed"]
  /\ AfterRender(Now)
  /\ lastEvent' = "attemptFailed"
  /\ UNCHANGED proctorVars
  /\ UNCHANGED <<exam, loading, questions, currentIndex, submitting, results,
                 fsRetryTimer, mCall, srvAttempts, svcCalls, svcLast>>

\* ---------------------------------------------------------- the countdown
TickTo(t) ==
  /\ AfterRender([Now EXCEPT !.timeRemaining = t])
  /\ lastEvent' = "tick"
  /\ UNCHANGED proctorVars
  /\ UNCHANGED <<exam, loading, error, questions, currentIndex, submitting, results,
                 fsRetryTimer, createCalls, mCall, srvAttempts, svcCalls, svcLast>>

\* A tick of the interval, which no state without TimerRunning has.
Tick_NoFloor == ~loading /\ ~submitted /\ TickTo(timeRemaining - 1)
Tick == TimerRunning /\ TickTo(TickResult(timeRemaining))

\* ------------------------------------------- the question state machine
\* The updaters the handlers pass to setQuestionState; cur and index are
\* 0-based as in the source.
SelectOptionUpdate_KeepStatus(prev, cur, optionIndex) ==
  [prev EXCEPT ![cur + 1].selectedOptionIndex = optionIndex]
SelectOptionUpdate_AlwaysAnswered(prev, cur, optionIndex) ==
  [prev EXCEPT ![cur + 1] =
     [selectedOptionIndex |-> optionIndex, status |-> "answered"]]
SelectOptionUpdate(prev, cur, optionIndex) ==
  [prev EXCEPT ![cur + 1] =
     [selectedOptionIndex |-> optionIndex,
      status |-> IF @.status = "notVisited" \/ @.status = "notAnswered"
                   THEN "answered" ELSE @.status]]

MoveUpdate_ResetsEntered(prev, cur, index) ==
  IF index + 1 \in DOMAIN prev
    THEN [prev EXCEPT ![index + 1].status = "notAnswered"]
    ELSE prev
MoveUpdate(prev, cur, index) ==
  LET left == IF cur + 1 \in DOMAIN prev /\ prev[cur + 1].status = "notVisited"
                THEN [prev EXCEPT ![cur + 1].status = "notAnswered"]
                ELSE prev
  IN IF index + 1 \in DOMAIN left /\ left[index + 1].status = "notVisited"
       THEN [left EXCEPT ![index + 1].status = "notAnswered"]
       ELSE left

ClearUpdate_NotVisited(prev, cur) ==
  [prev EXCEPT ![cur + 1] = [selectedOptionIndex |-> NULL, status |-> "notVisited"]]
ClearUpdate_KeepStatus(prev, cur) ==
  [prev EXCEPT ![cur + 1].selectedOptionIndex = NULL]
ClearUpdate(prev, cur) ==
  [prev EXCEPT ![cur + 1] = [selectedOptionIndex |-> NULL, status |-> "notAnswered"]]

SaveAndMarkUpdate(prev, cur) ==
  [prev EXCEPT ![cur + 1].status = "answeredMarked"]

MarkUpdate(prev, cur) ==
  [prev EXCEPT ![cur + 1].status =
     IF prev[cur + 1].selectedOptionIndex # NULL THEN "answeredMarked" ELSE "marked"]

\* An answer or navigation handler: the new question states and index.
AnswerStep(name, state, index) ==
  /\ currentIndex' = index
  /\ AfterRender([Now EXCEPT !.questionState = state])
  /\ lastEvent' = name
  /\ UNCHANGED proctorVars
  /\ UNCHANGED <<exam, loading, error, questions, submitting, results, fsRetryTimer,
                 createCalls, mCall, srvAttempts, svcCalls, svcLast>>

HandleSelectOption(optionIndex) ==
  /\ AnswerControlsEnabled
  /\ AnswerStep("select", SelectOptionUpdate(questionState, currentIndex, optionIndex),
                currentIndex)

\* A click on a palette button.
MoveToQuestion(index) ==
  /\ AnswerControlsEnabled
  /\ AnswerStep("palette", MoveUpdate(questionState, currentIndex, index), index)

\* << Back: disabled on the first question.
HandleBack ==
  /\ AnswerControlsEnabled
  /\ currentIndex # 0
  /\ LET index == IF currentIndex - 1 < 0 THEN 0 ELSE currentIndex - 1
     IN AnswerStep("back", MoveUpdate(questionState, currentIndex, index), index)

\* Next >>: disabled on the last question.
HandleNext ==
  /\ AnswerControlsEnabled
  /\ currentIndex # Len(questions) - 1
  /\ LET index == IF currentIndex + 1 > Len(questions) - 1
                    THEN Len(questions) - 1 ELSE currentIndex + 1
     IN AnswerStep("next", MoveUpdate(questionState, currentIndex, index), index)

HandleSaveAndNext ==
  /\ AnswerControlsEnabled
  /\ IF currentIndex < Len(questions) - 1
       THEN AnswerStep("saveAndNext",
                       MoveUpdate(questionState, currentIndex, currentIndex + 1),
                       currentIndex + 1)
       ELSE AnswerStep("saveAndNext", questionState, currentIndex)

HandleClear ==
  /\ AnswerControlsEnabled
  /\ AnswerStep(IF lastEvent = "select" THEN "clearAfterSelect" ELSE "clear",
                ClearUpdate(questionState, currentIndex), currentIndex)

HandleSaveAndMarkForReview ==
  /\ AnswerControlsEnabled
  /\ AnswerStep("saveAndMark", SaveAndMarkUpdate(questionState, currentIndex),
                currentIndex)

HandleMarkForReviewAndNext ==
  /\ AnswerControlsEnabled
  /\ LET marked == MarkUpdate(questionState, currentIndex)
     IN IF currentIndex < Len(questions) - 1
          THEN AnswerStep("markAndNext",
                          MoveUpdate(marked, currentIndex, currentIndex + 1),
                          currentIndex + 1)
          ELSE AnswerStep("markAndNext", marked, currentIndex)

\* --------------------------------------------------------- handleSubmit
\* A click on Submit, confirmed: the guards of the handler, then
\* setSubmitting(true), setError(null) and the submit request with the
\* answers of this render.
HandleSubmit_NoSubmittedGuard ==
  /\ ~loading /\ studentDetails /\ ~submitting /\ Truthy(attemptId)
  /\ submitting' = TRUE
  /\ error' = "none"
  /\ mCall' = [st |-> "submitReq", attempt |-> attemptId,
               answers |-> Answers(questions, questionState),
               body |-> <<>>]
  /\ AfterRender(Now)
  /\ lastEvent' = "submit"
  /\ UNCHANGED proctorVars
  /\ UNCHANGED <<exam, loading, questions, currentIndex, results, fsRetryTimer,
                 createCalls, srvAttempts, svcCalls, svcLast>>
HandleSubmit ==
  /\ SubmitButtonEnabled
  /\ IF ~Truthy(attemptId)
       THEN /\ error' = "notStarted"
            /\ UNCHANGED <<submitting, mCall>>
       ELSE IF submitted
         THEN UNCHANGED <<error, submitting, mCall>>
         ELSE /\ submitting' = TRUE
              /\ error' = "none"
              /\ mCall' = [st |-> "submitReq", attempt |-> attemptId,
                           answers |-> Answers(questions, questionState),
                           body |-> <<>>]
  /\ AfterRender(Now)
  /\ lastEvent' = "submit"
  /\ UNCHANGED proctorVars
  /\ UNCHANGED <<exam, loading, questions, currentIndex, results, fsRetryTimer,
                 createCalls, srvAttempts, svcCalls, svcLast>>

\* A click on Submit, the confirmation declined: the handler returns.
HandleSubmitDeclined_SetsSubmitting ==
  /\ SubmitButtonEnabled
  /\ submitting' = TRUE
  /\ AfterRender(Now)
  /\ lastEvent' = "submitDeclined"
  /\ UNCHANGED proctorVars
  /\ UNCHANGED <<exam, loading, error, questions, currentIndex, results,
                 fsRetryTimer, createCalls, mCall, srvAttempts, svcCalls, svcLast>>
HandleSubmitDeclined ==
  /\ SubmitButtonEnabled
  /\ AfterRender(Now)
  /\ lastEvent' = "submitDeclined"
  /\ UNCHANGED proctorVars
  /\ UNCHANGED <<exam, loading, error, questions, currentIndex, submitting, results,
                 fsRetryTimer, createCalls, mCall, srvAttempts, svcCalls, svcLast>>

\* res.ok: setSubmitted(true), then the results request.
ManualSubmitOk ==
  /\ mCall.st = "submitOk"
  /\ mCall' = [mCall EXCEPT !.st = "resultsReq"]
  /\ AfterRender([Now EXCEPT !.submitted = TRUE])
  /\ lastEvent' = "manualSubmitOk"
  /\ UNCHANGED proctorVars
  /\ UNCHANGED <<exam, loading, error, questions, currentIndex, submitting, results,
                 fsRetryTimer, createCalls, srvAttempts, svcCalls, svcLast>>

\* fetch throws (the request or its response is lost) or !res.ok: the
\* error is set, and finally setSubmitting(false).
ManualSubmitFailed ==
  /\ mCall.st \in {"submitReq", "submitOk", "submitFail"}
  /\ mCall' = [mCall EXCEPT !.st = "done"]
  /\ error' = "submit"
  /\ submitting' = FALSE
  /\ AfterRender(Now)
  /\ lastEvent' = "manualSubmitFailed"
  /\ UNCHANGED proctorVars
  /\ UNCHANGED <<exam, loading, questions, currentIndex, results, fsRetryTimer,
                 createCalls, srvAttempts, svcCalls, svcLast>>

\* resultsRes.ok: setResults, and finally setSubmitting(false).
ManualResultsOk ==
  /\ mCall.st = "resultsOk"
  /\ results' = mCall.body
  /\ mCall' = [mCall EXCEPT !.st = "done", !.body = <<>>]
  /\ submitting' = FALSE
  /\ AfterRender(Now)
  /\ lastEvent' = "manualResultsOk"
  /\ UNCHANGED proctorVars
  /\ UNCHANGED <<exam, loading, error, questions, currentIndex, fsRetryTimer,
                 createCalls, srvAttempts, svcCalls, svcLast>>

\* The results fetch throws or is not OK: nothing but setSubmitting(false).
ManualResultsFailed_SetsError ==
  /\ mCall.st \in {"resultsReq", "resultsOk", "resultsFail"}
  /\ mCall' = [mCall EXCEPT !.st = "done", !.body = <<>>]
  /\ submitting' = FALSE
  /\ error' = "results"
  /\ AfterRender(Now)
  /\ lastEvent' = "manualResultsFailed"
  /\ UNCHANGED proctorVars
  /\ UNCHANGED <<exam, loading, questions, currentIndex, results, fsRetryTimer,
                 createCalls, srvAttempts, svcCalls, svcLast>>
ManualResultsFailed ==
  /\ mCall.st \in {"resultsReq", "resultsOk", "resultsFail"}
  /\ mCall' = [mCall EXCEPT !.st = "done", !.body = <<>>]
  /\ submitting' = FALSE
  /\ AfterRender(Now)
  /\ lastEvent' = "manualResultsFailed"
  /\ UNCHANGED proctorVars
  /\ UNCHANGED <<exam, loading, error, questions, currentIndex, results, fsRetryTimer,
                 createCalls, srvAttempts, svcCalls, svcLast>>

\* ----------------------------------------------------------- autoSubmit
\* (the request is sent by the auto-submit effect, in AfterRender)
\* submitRes.ok: setSubmitted(true), then the results request.
AutoSubmitOk_AnyAnswer ==
  /\ aCall.st \in {"submitOk", "submitFail"}
  /\ AfterRender([Now EXCEPT !.submitted = TRUE,
                             !.aCall = [aCall EXCEPT !.st = "resultsReq"]])
  /\ lastEvent' = "autoSubmitOk"
  /\ UNCHANGED proctorVars
  /\ UNCHANGED <<exam, loading, error, questions, currentIndex, submitting, results,
                 fsRetryTimer, createCalls, mCall, srvAttempts, svcCalls, svcLast>>
AutoSubmitOk ==
  /\ aCall.st = "submitOk"
  /\ AfterRender([Now EXCEPT !.submitted = TRUE,
                             !.aCall = [aCall EXCEPT !.st = "resultsReq"]])
  /\ lastEvent' = "autoSubmitOk"
  /\ UNCHANGED proctorVars
  /\ UNCHANGED <<exam, loading, error, questions, currentIndex, submitting, results,
                 fsRetryTimer, createCalls, mCall, srvAttempts, svcCalls, svcLast>>

\* fetch throws or !submitRes.ok: logged, no state is set.
AutoSubmitFailed ==
  /\ aCall.st \in {"submitReq", "submitOk", "submitFail"}
  /\ AfterRender([Now EXCEPT !.aCall = [aCall EXCEPT !.st = "done"]])
  /\ lastEvent' = "autoSubmitFailed"
  /\ UNCHANGED proctorVars
  /\ UNCHANGED <<exam, loading, error, questions, currentIndex, submitting, results,
                 fsRetryTimer, createCalls, mCall, srvAttempts, svcCalls, svcLast>>

AutoResultsOk ==
  /\ aCall.st = "resultsOk"
  /\ results' = aCall.body
  /\ AfterRender([Now EXCEPT !.aCall = [aCall EXCEPT !.st = "done", !.body = <<>>]])
  /\ lastEvent' = "autoResultsOk"
  /\ UNCHANGED proctorVars
  /\ UNCHANGED <<exam, loading, error, questions, currentIndex, submitting,
                 fsRetryTimer, createCalls, mCall, srvAttempts, svcCalls, svcLast>>

AutoResultsFailed ==
  /\ aCall.st \in {"resultsReq", "resultsOk", "resultsFail"}
  /\ AfterRender([Now EXCEPT !.aCall = [aCall EXCEPT !.st = "done", !.body = <<>>]])
  /\ lastEvent' = "autoResultsFailed"
  /\ UNCHANGED proctorVars
  /\ UNCHANGED <<exam, loading, error, questions, currentIndex, submitting, results,
                 fsRetryTimer, createCalls, mCall, srvAttempts, svcCalls, svcLast>>

\* ------------------------------------- the service, submit and results
CallOf(path) == IF path = "manual" THEN mCall ELSE aCall

SetCall(path, call) ==
  IF path = "manual" THEN mCall' = call /\ UNCHANGED aCall
  ELSE aCall' = call /\ UNCHANGED mCall

\* The service handles a submit request: one scoring pass for an attempt that
\* is not submitted, a refusal (AlreadySubmitted) for one that is.
ServerSubmit(path) ==
  LET call == CallOf(path)
  IN /\ call.st = "submitReq"
     /\ call.attempt \in DOMAIN srvAttempts
     /\ IF SubmitAccepted(srvAttempts[call.attempt])
          THEN /\ srvAttempts' = [srvAttempts EXCEPT ![call.attempt] =
                                    SubmitAttempt(exam, @, call.answers)]
               /\ SetCall(path, [call EXCEPT !.st = "submitOk"])
          ELSE /\ UNCHANGED srvAttempts
               /\ SetCall(path, [call EXCEPT !.st = "submitFail"])
     /\ UNCHANGED <<exam, loading, error, studentDetails, questions, currentIndex,
                    questionState, timeRemaining, timeOver, attemptId, submitted,
                    submitting, isFullscreen, results, docFullscreen, fsEffectTimer,
                    fsRetryTimer, createCalls, expiryCount, svcCalls, svcLast>>
     /\ lastEvent' = "serverSubmit"
     /\ UNCHANGED proctorVars

\* The service handles a results request.
ServerResults(path) ==
  LET call == CallOf(path)
  IN /\ call.st = "resultsReq"
     /\ call.attempt \in DOMAIN srvAttempts
     /\ IF ResultReady(srvAttempts[call.attempt])
          THEN SetCall(path, [call EXCEPT !.st = "resultsOk",
                                          !.body = srvAttempts[call.attempt].result])
          ELSE SetCall(path, [call EXCEPT !.st = "resultsFail"])
     /\ UNCHANGED <<exam, loading, error, studentDetails, questions, currentIndex,
                    questionState, timeRemaining, timeOver, attemptId, submitted,
                    submitting, isFullscreen, results, docFullscreen, fsEffectTimer,
                    fsRetryTimer, createCalls, expiryCount, srvAttempts, svcCalls,
                    svcLast>>
     /\ lastEvent' = "serverResults"
     /\ UNCHANGED proctorVars

\* ------------------------------------------------------ requestFullscreen
\* requestFullscreen(): granted, the document is fullscreen and isFullscreen
\* is set; rejected by every API variant, the alert and a retry in 1000 ms.
RequestFullscreen(granted, s) ==
  /\ IF granted
       THEN /\ AfterRender([s EXCEPT !.docFullscreen = TRUE, !.isFullscreen = TRUE])
            /\ UNCHANGED fsRetryTimer
       ELSE /\ AfterRender(s)
            /\ fsRetryTimer' = TRUE
  /\ UNCHANGED <<exam, loading, error, questions, currentIndex, submitting, results,
                 createCalls, mCall, srvAttempts, svcCalls, svcLast>>

\* The 500 ms timeout of the fullscreen request effect fires.
FsEffectTimerFires(granted) ==
  /\ fsEffectTimer
  /\ RequestFullscreen(granted, [Now EXCEPT !.fsEffectTimer = FALSE])
  /\ lastEvent' = "fsEffectTimer"
  /\ UNCHANGED proctorVars

\* The retry timeout of requestFullscreen fires; no cleanup ever clears it.
FsRetryTimerFires(granted) ==
  /\ fsRetryTimer
  /\ IF granted
       THEN /\ AfterRender([Now EXCEPT !.docFullscreen = TRUE, !.isFullscreen = TRUE])
            /\ fsRetryTimer' = FALSE
       ELSE /\ AfterRender(Now)
            /\ fsRetryTimer' = TRUE
  /\ lastEvent' = "fsRetryTimer"
  /\ UNCHANGED proctorVars
  /\ UNCHANGED <<exam, loading, error, questions, currentIndex, submitting, results,
                 createCalls, mCall, srvAttempts, svcCalls, svcLast>>

\* --------------------------------------------- fullscreen tracking effect
\* The effect attaches handleFullscreenChange to the four fullscreenchange
\* event names and starts the 500 ms polling check exactly in these states;
\* its cleanup removes them.
TrackingActive_NoStop == studentDetails /\ Truthy(attemptId)
TrackingActive == ~(~studentDetails \/ ~Truthy(attemptId) \/ submitted \/ timeOver)

\* handleFullscreenChange's test for an exit: the document is not fullscreen
\* and isFullscreen, as the handler's render saw it, is set.
ExitSeen(fsOfRender) == ~docFullscreen /\ fsOfRender

\* The student (Esc, a window switch) takes the document out of fullscreen.
FullscreenLost ==
  /\ docFullscreen
  /\ losses < MaxLosses
  /\ losses' = losses + 1
  /\ AfterRender([Now EXCEPT !.docFullscreen = FALSE])
  /\ lastEvent' = "fullscreenLost"
  /\ UNCHANGED <<exam, loading, error, questions, currentIndex, submitting, results,
                 fsRetryTimer, createCalls, mCall, srvAttempts, svcCalls, svcLast,
                 exitCalls, reenterTimers, exitReports, warnings, alertOpen>>

\* The loss is detected: handleFullscreenChange is called by d sources (the
\* listeners of the event names the browser dispatches, the polling check)
\* before the component renders again, so each call sees the isFullscreen of
\* the same render. Each call sets isFullscreen to false and sends the exit
\* report; the polling check's isHandlingExit flag is not read by the
\* listeners.
DetectExit(d) ==
  /\ TrackingActive
  /\ ExitSeen(isFullscreen)
  /\ exitCalls' = [exitCalls EXCEPT !.req = @ + d]
  /\ exitReports' = exitReports + d
  /\ AfterRender([Now EXCEPT !.isFullscreen = FALSE])
  /\ lastEvent' = "fullscreenExit"
  /\ UNCHANGED <<exam, loading, error, questions, currentIndex, submitting, results,
                 fsRetryTimer, createCalls, mCall, srvAttempts, svcCalls, svcLast,
                 reenterTimers, losses, warnings, alertOpen>>

\* The service handles an exit report.
ServerRecordExit ==
  /\ exitCalls.req > 0
  /\ attemptId \in DOMAIN srvAttempts
  /\ srvAttempts' = [srvAttempts EXCEPT ![attemptId] = RecordExit(@)]
  /\ exitCalls' = [exitCalls EXCEPT !.req = @ - 1, !.answered = @ + 1]
  /\ lastEvent' = "serverExit"
  /\ UNCHANGED <<exam, loading, error, studentDetails, questions, currentIndex,
                 questionState, timeRemaining, timeOver, attemptId, submitted,
                 submitting, isFullscreen, results, docFullscreen, fsEffectTimer,
                 fsRetryTimer, createCalls, mCall, aCall, expiryCount, svcCalls,
                 svcLast, reenterTimers, losses, exitReports, warnings, alertOpen>>

\* After the awaited report, whatever its outcome: the warning (a blocking
\* alert) and the 100 ms timeout that requests fullscreen again. No state of
\* the component is set. The student clicks OK at once here: nothing of the
\* client runs between the alert and the timeout, so for what the handler
\* does the two are one step (ShowExitWarning and AcknowledgeExitWarning
\* keep them apart, for what happens while the alert is on display).
AfterExitReport(name, calls) ==
  /\ exitCalls' = calls
  /\ warnings' = warnings + 1
  /\ reenterTimers' = reenterTimers + 1
  /\ lastEvent' = name
  /\ UNCHANGED <<exam, loading, error, studentDetails, questions, currentIndex,
                 questionState, timeRemaining, timeOver, attemptId, submitted,
                 submitting, isFullscreen, results, docFullscreen, fsEffectTimer,
                 fsRetryTimer, createCalls, mCall, aCall, expiryCount, srvAttempts,
                 svcCalls, svcLast, losses, exitReports, alertOpen>>

\* The report's fetch resolves.
ExitReportOk ==
  /\ exitCalls.answered > 0
  /\ AfterExitReport("exitReportOk", [exitCalls EXCEPT !.answered = @ - 1])

\* The report's fetch throws (the request or its answer is lost): logged.
ExitReportFailed_NoWarning ==
  /\ exitCalls.req > 0
  /\ exitCalls' = [exitCalls EXCEPT !.req = @ - 1]
  /\ lastEvent' = "exitReportFailed"
  /\ UNCHANGED <<exam, loading, error, studentDetails, questions, currentIndex,
                 questionState, timeRemaining, timeOver, attemptId, submitted,
                 submitting, isFullscreen, results, docFullscreen, fsEffectTimer,
                 fsRetryTimer, createCalls, mCall, aCall, expiryCount, srvAttempts,
                 svcCalls, svcLast, losses, exitReports, warnings, reenterTimers,
                 alertOpen>>
ExitReportFailed ==
  \/ /\ exitCalls.req > 0
     /\ AfterExitReport("exitReportFailed", [exitCalls EXCEPT !.req = @ - 1])
  \/ /\ exitCalls.answered > 0
     /\ AfterExitReport("exitReportFailed", [exitCalls EXCEPT !.answered = @ - 1])

\* The 100 ms timeout set after the warning fires: requestFullscreen().
FsReenterTimerFires(granted) ==
  /\ reenterTimers > 0
  /\ reenterTimers' = reenterTimers - 1
  /\ RequestFullscreen(granted, Now)
  /\ lastEvent' = "fsReenterTimer"
  /\ UNCHANGED <<exitCalls, losses, exitReports, warnings, alertOpen>>

\* The same continuation of handleFullscreenChange up to alert(): the
\* warning is on display and the call has not returned.
ShowExitWarning(calls) ==
  /\ ~alertOpen
  /\ exitCalls' = calls
  /\ warnings' = warnings + 1
  /\ alertOpen' = TRUE
  /\ lastEvent' = "exitWarning"
  /\ UNCHANGED <<exam, loading, error, studentDetails, questions, currentIndex,
                 questionState, timeRemaining, timeOver, attemptId, submitted,
                 submitting, isFullscreen, results, docFullscreen, fsEffectTimer,
                 fsRetryTimer, createCalls, mCall, aCall, expiryCount, srvAttempts,
                 svcCalls, svcLast, losses, exitReports, reenterTimers>>

\* The report's fetch resolved, or it threw and the error was logged.
ExitWarningShown ==
  \/ /\ exitCalls.answered > 0
     /\ ShowExitWarning([exitCalls EXCEPT !.answered = @ - 1])
  \/ /\ exitCalls.req > 0
     /\ ShowExitWarning([exitCalls EXCEPT !.req = @ - 1])

\* The student clicks OK: alert() returns and the handler sets the 100 ms
\* timeout that requests fullscreen again.
AcknowledgeExitWarning ==
  /\ alertOpen
  /\ alertOpen' = FALSE
  /\ reenterTimers' = reenterTimers + 1
  /\ lastEvent' = "warningAcknowledged"
  /\ UNCHANGED <<exam, loading, error, studentDetails, questions, currentIndex,
                 questionState, timeRemaining, timeOver, attemptId, submitted,
                 submitting, isFullscreen, results, docFullscreen, fsEffectTimer,
                 fsRetryTimer, createCalls, mCall, aCall, expiryCount, srvAttempts,
                 svcCalls, svcLast, losses, exitReports, warnings, exitCalls>>

\* ------------------------------------------- the service called directly
\* Every request body a client can send for the exam: one answer per
\* question, null or an option 1..4.
Payloads(ex) ==
  {[p \in 1..Len(ex.questions) |->
      [question_id |-> ex.questions[p].id, selected_option |-> f[p]]] :
     f \in [1..Len(ex.questions) -> {NULL} \cup (1..NumOptions)]}

SvcCreateAttempt ==
  /\ svcCalls < MaxServiceCalls
  /\ Len(srvAttempts) < MaxAttempts
  /\ Len(exam.questions) >= 1
  /\ srvAttempts' = Append(srvAttempts, NewAttempt(exam))
  /\ svcLast' = [op |-> "create", attempt |-> Len(srvAttempts) + 1, ok |-> TRUE,
                 body |-> <<>>]
  /\ svcCalls' = svcCalls + 1
  /\ UNCHANGED exam
  /\ UNCHANGED clientVars

SvcSubmit(id, payload) ==
  /\ svcCalls < MaxServiceCalls
  /\ id \in DOMAIN srvAttempts
  /\ IF SubmitAccepted(srvAttempts[id])
       THEN /\ srvAttempts' = [srvAttempts EXCEPT ![id] = SubmitAttempt(exam, @, payload)]
            /\ svcLast' = [op |-> "submit", attempt |-> id, ok |-> TRUE, body |-> <<>>]
       ELSE /\ UNCHANGED srvAttempts
            /\ svcLast' = [op |-> "submit", attempt |-> id, ok |-> FALSE, body |-> <<>>]
  /\ svcCalls' = svcCalls + 1
  /\ UNCHANGED exam
  /\ UNCHANGED clientVars

SvcGetResult(id) ==
  /\ svcCalls < MaxServiceCalls
  /\ id \in DOMAIN srvAttempts
  /\ svcLast' = IF ResultReady(srvAttempts[id])
                  THEN [op |-> "getResult", attempt |-> id, ok |-> TRUE,
                        body |-> srvAttempts[id].result]
                  ELSE [op |-> "getResult", attempt |-> id, ok |-> FALSE, body |-> <<>>]
  /\ svcCalls' = svcCalls + 1
  /\ UNCHANGED <<exam, srvAttempts>>
  /\ UNCHANGED clientVars

SvcRecordExit(id) ==
  /\ svcCalls < MaxServiceCalls
  /\ id \in DOMAIN srvAttempts
  /\ srvAttempts' = [srvAttempts EXCEPT ![id] = RecordExit(@)]
  /\ svcLast' = [op |-> "exit", attempt |-> id, ok |-> TRUE, body |-> <<>>]
  /\ svcCalls' = svcCalls + 1
  /\ UNCHANGED exam
  /\ UNCHANGED clientVars

\* ------------------------------------------------------- specifications
\* ExamLayout as constructed: the exam is loading, nothing else has happened.
Mounted ==
  /\ loading = TRUE
  /\ error = "none"
  /\ studentDetails = FALSE
  /\ questions = <<>>
  /\ currentIndex = 0
  /\ questionState = <<>>
  /\ timeRemaining = 0
  /\ timeOver = FALSE
  /\ attemptId = NULL
  /\ submitted = FALSE
  /\ submitting = FALSE
  /\ isFullscreen = FALSE
  /\ results = <<>>
  /\ docFullscreen = FALSE
  /\ fsEffectTimer = FALSE
  /\ fsRetryTimer = FALSE
  /\ createCalls = <<>>
  /\ mCall = NoCall
  /\ aCall = NoCall
  /\ expiryCount = 0
  /\ lastEvent = "-"
  /\ exitCalls = [req |-> 0, answered |-> 0]
  /\ reenterTimers = 0
  /\ losses = 0
  /\ exitReports = 0
  /\ warnings = 0
  /\ alertOpen = FALSE

ServiceIdle ==
  /\ srvAttempts = <<>>
  /\ svcCalls = 0
  /\ svcLast = [op |-> "none", attempt |-> NULL, ok |-> TRUE, body |-> <<>>]

Init ==
  /\ exam \in {SessionExam(1, d) : d \in MinDurationMinutes..MaxDurationMinutes}
  /\ Mounted
  /\ ServiceIdle

\* The session of a one-question exam, from the mount on. (Back and Next
\* are disabled on the first and on the last question, so never enabled.)
Next ==
  \/ FetchExamOk
  \/ FetchExamFail
  \/ SubmitDetails
  \/ \E c \in DOMAIN createCalls : ServerCreateAttempt(c)
  \/ \E c \in DOMAIN createCalls : CreateAttemptStarted(c)
  \/ \E c \in DOMAIN createCalls : CreateAttemptFailed(c)
  \/ Tick
  \/ \E o \in 0..(NumOptions - 1) : HandleSelectOption(o)
  \/ \E i \in 0..(Len(questions) - 1) : MoveToQuestion(i)
  \/ HandleSaveAndNext
  \/ HandleClear
  \/ HandleSaveAndMarkForReview
  \/ HandleMarkForReviewAndNext
  \/ HandleSubmit
  \/ HandleSubmitDeclined
  \/ ManualSubmitOk
  \/ ManualSubmitFailed
  \/ ManualResultsOk
  \/ ManualResultsFailed
  \/ AutoSubmitOk
  \/ AutoSubmitFailed
  \/ AutoResultsOk
  \/ AutoResultsFailed
  \/ \E path \in {"manual", "auto"} : ServerSubmit(path)
  \/ \E path \in {"manual", "auto"} : ServerResults(path)
  \/ \E g \in BOOLEAN : FsEffectTimerFires(g)
  \/ \E g \in BOOLEAN : FsRetryTimerFires(g)

Spec == Init /\ [][Next]_vars

\* The attempt service under direct calls, for every exam of the bounds.
InitService ==
  /\ exam \in {[duration_minutes |-> MinDurationMinutes,
               questions |-> [p \in 1..n |->
                                QuestionOf(p, key[p], marks[p], neg[p])]] :
                 n \in 1..MaxQuestions,
                 key \in [1..MaxQuestions -> 1..NumOptions],
                 marks \in [1..MaxQuestions -> {1, DefaultMarks}],
                 neg \in [1..MaxQuestions -> {0, DefaultNegativeMarks}]}
  /\ Mounted
  /\ ServiceIdle

NextService ==
  \/ SvcCreateAttempt
  \/ \E id \in DOMAIN srvAttempts : \E payload \in Payloads(exam) : SvcSubmit(id, payload)
  \/ \E id \in DOMAIN srvAttempts : SvcGetResult(id)
  \/ \E id \in DOMAIN srvAttempts : SvcRecordExit(id)

SpecService == InitService /\ [][NextService]_vars

\* The session in progress: the attempt was created for the call of the
\* form, fullscreen was granted by the request of the effect's timeout, no
\* answer was given yet and the countdown, running since the exam loaded,
\* has left MaxStartSeconds or fewer.
InitExam ==
  /\ exam \in {SessionExam(n, d) : n \in 1..MaxQuestions,
                                   d \in MinDurationMinutes..MaxDurationMinutes}
  /\ loading = FALSE
  /\ error = "none"
  /\ studentDetails = TRUE
  /\ questions = [p \in 1..Len(exam.questions) |-> exam.questions[p].id]
  /\ currentIndex = 0
  /\ questionState = InitialState(questions)
  /\ timeRemaining \in 1..MaxStartSeconds
  /\ timeOver = FALSE
  /\ attemptId = 1
  /\ submitted = FALSE
  /\ submitting = FALSE
  /\ isFullscreen = TRUE
  /\ results = <<>>
  /\ docFullscreen = TRUE
  /\ fsEffectTimer = FALSE
  /\ fsRetryTimer = FALSE
  /\ createCalls = <<[st |-> "started", id |-> 1]>>
  /\ mCall = NoCall
  /\ aCall = NoCall
  /\ expiryCount = 0
  /\ lastEvent = "-"
  /\ exitCalls = [req |-> 0, answered |-> 0]
  /\ reenterTimers = 0
  /\ losses = 0
  /\ exitReports = 0
  /\ warnings = 0
  /\ alertOpen = FALSE
  /\ srvAttempts = <<NewAttempt(exam)>>
  /\ svcCalls = 0
  /\ svcLast = [op |-> "none", attempt |-> NULL, ok |-> TRUE, body |-> <<>>]

\* What can follow: no form, no pending create call, no fullscreen timeout.
NextExam ==
  \/ Tick
  \/ \E o \in 0..(NumOptions - 1) : HandleSelectOption(o)
  \/ \E i \in 0..(Len(questions) - 1) : MoveToQuestion(i)
  \/ HandleBack
  \/ HandleNext
  \/ HandleSaveAndNext
  \/ HandleClear
  \/ HandleSaveAndMarkForReview
  \/ HandleMarkForReviewAndNext
  \/ HandleSubmit
  \/ HandleSubmitDeclined
  \/ ManualSubmitOk
  \/ ManualSubmitFailed
  \/ ManualResultsOk
  \/ ManualResultsFailed
  \/ AutoSubmitOk
  \/ AutoSubmitFailed
  \/ AutoResultsOk
  \/ AutoResultsFailed
  \/ \E path \in {"manual", "auto"} : ServerSubmit(path)
  \/ \E path \in {"manual", "auto"} : ServerResults(path)

SpecExam == InitExam /\ [][NextExam]_vars

\* The end of the attempt of a one-question exam: the countdown, the
\* answers, both submission paths and the service. What the platform
\* schedules happens: the countdown's interval fires, the service handles a
\* request it holds, and a fetch that was started resolves or throws.
InitExpiry == InitExam /\ Len(exam.questions) = 1

NextExpiry ==
  \/ Tick
  \/ \E o \in 0..(NumOptions - 1) : HandleSelectOption(o)
  \/ HandleClear
  \/ HandleSubmit
  \/ ManualSubmitOk
  \/ ManualSubmitFailed
  \/ ManualResultsOk
  \/ ManualResultsFailed
  \/ AutoSubmitOk
  \/ AutoSubmitFailed
  \/ AutoResultsOk
  \/ AutoResultsFailed
  \/ \E path \in {"manual", "auto"} : ServerSubmit(path)
  \/ \E path \in {"manual", "auto"} : ServerResults(path)

ExpiryFairness ==
  /\ WF_vars(Tick)
  /\ \A path \in {"manual", "auto"} :
       WF_vars(ServerSubmit(path)) /\ WF_vars(ServerResults(path))
  /\ WF_vars(ManualSubmitOk \/ ManualSubmitFailed)
  /\ WF_vars(ManualResultsOk \/ ManualResultsFailed)
  /\ WF_vars(AutoSubmitOk \/ AutoSubmitFailed)
  /\ WF_vars(AutoResultsOk \/ AutoResultsFailed)

SpecExpiry == InitExpiry /\ [][NextExpiry]_vars /\ ExpiryFairness

\* Proctoring: the session of a one-question exam from the moment the
\* attempt has started (the state CreateAttemptStarted leaves: the 500 ms
\* timeout of the fullscreen request effect is pending), the countdown,
\* running since the exam loaded, at MaxStartSeconds or fewer.
InitProctor ==
  /\ exam \in {SessionExam(1, d) : d \in MinDurationMinutes..MaxDurationMinutes}
  /\ loading = FALSE
  /\ error = "none"
  /\ studentDetails = TRUE
  /\ questions = [p \in 1..Len(exam.questions) |-> exam.questions[p].id]
  /\ currentIndex = 0
  /\ questionState = InitialState(questions)
  /\ timeRemaining \in 1..MaxStartSeconds
  /\ timeOver = FALSE
  /\ attemptId = 1
  /\ submitted = FALSE
  /\ submitting = FALSE
  /\ isFullscreen = FALSE
  /\ results = <<>>
  /\ docFullscreen = FALSE
  /\ fsEffectTimer = TRUE
  /\ fsRetryTimer = FALSE
  /\ createCalls = <<[st |-> "started", id |-> 1]>>
  /\ mCall = NoCall
  /\ aCall = NoCall
  /\ expiryCount = 0
  /\ lastEvent = "attemptStarted"
  /\ exitCalls = [req |-> 0, answered |-> 0]
  /\ reenterTimers = 0
  /\ losses = 0
  /\ exitReports = 0
  /\ warnings = 0
  /\ alertOpen = FALSE
  /\ srvAttempts = <<NewAttempt(exam)>>
  /\ svcCalls = 0
  /\ svcLast = [op |-> "none", attempt |-> NULL, ok |-> TRUE, body |-> <<>>]

NextProctor ==
  \/ Tick
  \/ \E o \in 0..(NumOptions - 1) : HandleSelectOption(o)
  \/ HandleSubmit
  \/ ManualSubmitOk
  \/ ManualSubmitFailed
  \/ ManualResultsOk
  \/ ManualResultsFailed
  \/ AutoSubmitOk
  \/ AutoSubmitFailed
  \/ AutoResultsOk
  \/ AutoResultsFailed
  \/ \E path \in {"manual", "auto"} : ServerSubmit(path)
  \/ \E path \in {"manual", "auto"} : ServerResults(path)
  \/ \E g \in BOOLEAN : FsEffectTimerFires(g)
  \/ \E g \in BOOLEAN : FsRetryTimerFires(g)
  \/ FullscreenLost
  \/ \E d \in 1..MaxSources : DetectExit(d)
  \/ ServerRecordExit
  \/ ExitReportOk
  \/ ExitReportFailed
  \/ \E g \in BOOLEAN : FsReenterTimerFires(g)

SpecProctor == InitProctor /\ [][NextProctor]_vars

\* The start of the attempt, for every exam of the bounds: the exam loads or
\* fails to load, the form is submitted up to MaxFormSubmits times, each
\* create-attempt request is handled and answered in any order, the
\* countdown runs and the student answers the question shown.
InitStart ==
  /\ exam \in {SessionExam(n, d) : n \in 1..MaxQuestions,
                                   d \in MinDurationMinutes..MaxDurationMinutes}
  /\ Mounted
  /\ ServiceIdle

NextStart ==
  \/ FetchExamOk
  \/ FetchExamFail
  \/ SubmitDetailsUpTo(MaxFormSubmits)
  \/ \E c \in DOMAIN createCalls : ServerCreateAttempt(c)
  \/ \E c \in DOMAIN createCalls : CreateAttemptStarted(c)
  \/ \E c \in DOMAIN createCalls : CreateAttemptFailed(c)
  \/ Tick
  \/ \E o \in 0..(NumOptions - 1) : HandleSelectOption(o)

SpecStart == InitStart /\ [][NextStart]_vars

\* Proctoring with the exit warning on display for as long as the student
\* leaves it: the session of InitProctor, the countdown, the manual and the
\* automatic submit request, fullscreen losses and their reports.
NextWarning ==
  \/ Tick
  \/ HandleSubmit
  \/ ManualSubmitOk
  \/ ManualSubmitFailed
  \/ AutoSubmitOk
  \/ AutoSubmitFailed
  \/ \E path \in {"manual", "auto"} : ServerSubmit(path)
  \/ \E g \in BOOLEAN : FsEffectTimerFires(g)
  \/ \E g \in BOOLEAN : FsRetryTimerFires(g)
  \/ FullscreenLost
  \/ \E d \in 1..MaxSources : DetectExit(d)
  \/ ServerRecordExit
  \/ ExitWarningShown
  \/ AcknowledgeExitWarning
  \/ \E g \in BOOLEAN : FsReenterTimerFires(g)

SpecWarning == InitProctor /\ [][NextWarning]_vars

\* ================================================================ claims
AnswerEvents ==
  {"select", "palette", "back", "next", "saveAndNext", "clear", "clearAfterSelect",
   "saveAndMark", "markAndNext"}

\* A submit request was sent on this path (it may be in flight or answered).
Sent(call) == call.st # "idle"

\* C1: for one attempt at most one submit request is sent, whatever the
\* interleaving of handleSubmit and the timer expiry: the manual and the
\* automatic path never both send a request for the same attempt.
C1_OneSubmitRequest ==
  ~(Sent(mCall) /\ Sent(aCall) /\ mCall.attempt = aCall.attempt)

\* C2: an attempt is submitted once: no attempt gets a second scoring pass,
\* and a submitted attempt keeps its submitted flag, its AnswerRecords and its
\* Result in every later step, duplicate submit calls included.
C2_SubmittedOnce ==
  [][\A id \in DOMAIN srvAttempts :
       /\ id \in DOMAIN srvAttempts'
       /\ srvAttempts'[id].passes <= 1
       /\ srvAttempts[id].submitted =>
            /\ srvAttempts'[id].submitted
            /\ srvAttempts'[id].answers = srvAttempts[id].answers
            /\ srvAttempts'[id].result = srvAttempts[id].result
            /\ srvAttempts'[id].passes = srvAttempts[id].passes]_vars

\* C2 witness: a duplicate submit call was refused for an attempt that has
\* had its one scoring pass.
C2_DuplicateRefused ==
  /\ svcLast.op = "submit"
  /\ ~svcLast.ok
  /\ srvAttempts[svcLast.attempt].passes = 1

RECURSIVE SumOver(_, _)
SumOver(S, f) ==
  IF S = {} THEN 0
  ELSE LET x == CHOOSE y \in S : TRUE IN f[x] + SumOver(S \ {x}, f)

CorrectOnes(att) ==
  {p \in 1..Len(exam.questions) :
     att.answers[p] # NULL /\ att.answers[p] = exam.questions[p].correct_option}

WrongOnes(att) ==
  {p \in 1..Len(exam.questions) :
     att.answers[p] # NULL /\ att.answers[p] # exam.questions[p].correct_option}

Unattempted(att) == {p \in 1..Len(exam.questions) : att.answers[p] = NULL}

\* C3: the Result of a submitted attempt is the sum over the questions of
\* +marks for a correct answer, -negative_marks for a wrong one and 0 for
\* none; correct, wrong and not_attempted count the three cases and add up to
\* total_questions (so [correct, wrong] at marks 4 / negative 1 scores 3 and
\* an all-unattempted submission scores 0).
C3_ResultIsSum ==
  \A id \in DOMAIN srvAttempts :
    LET att == srvAttempts[id]
        marks == [p \in 1..Len(exam.questions) |-> exam.questions[p].marks]
        negs == [p \in 1..Len(exam.questions) |-> exam.questions[p].negative_marks]
    IN att.submitted =>
         /\ Len(att.result) = 1
         /\ att.result[1].total_score =
              SumOver(CorrectOnes(att), marks) - SumOver(WrongOnes(att), negs)
         /\ att.result[1].correct = Cardinality(CorrectOnes(att))
         /\ att.result[1].wrong = Cardinality(WrongOnes(att))
         /\ att.result[1].not_attempted = Cardinality(Unattempted(att))
         /\ att.result[1].total_questions = Len(exam.questions)
         /\ att.result[1].correct + att.result[1].wrong + att.result[1].not_attempted
              = att.result[1].total_questions
         /\ (Unattempted(att) = 1..Len(exam.questions) =>
               att.result[1].total_score = 0)

\* C3 witness: two questions at marks 4 / negative 1, answered [correct,
\* wrong], scored 3.
C3_FourMinusOne ==
  \E id \in DOMAIN srvAttempts :
    /\ srvAttempts[id].submitted
    /\ Len(exam.questions) = 2
    /\ \A p \in 1..2 : exam.questions[p].marks = 4 /\ exam.questions[p].negative_marks = 1
    /\ CorrectOnes(srvAttempts[id]) = {1}
    /\ WrongOnes(srvAttempts[id]) = {2}
    /\ srvAttempts[id].result[1].total_score = 3

\* C4: the remaining time is never negative.
C4_TimeNotNegative == timeRemaining >= 0

\* C4 witness: the countdown has reached zero by a tick.
C4_TickedToZero == lastEvent = "tick" /\ timeRemaining = 0

\* C5: the expiry (set timeOver, launch the automatic submission) is handled
\* at most once in a session.
C5_ExpiryOnce == expiryCount <= 1

\* C5 witness: the countdown of a loaded exam expired, the expiry was handled
\* and the effect's dependencies changed afterwards (the automatic submission
\* set submitted).
C5_ExpiredThenSubmitted ==
  expiryCount = 1 /\ timeOver /\ submitted /\ Len(questions) > 0

\* C6: no select, clear, mark or navigation step changes a status to
\* notVisited: a question that is notVisited after such a step was so before.
C6_NeverBackToNotVisited ==
  [][lastEvent' \in AnswerEvents =>
       /\ DOMAIN questionState' = DOMAIN questionState
       /\ \A p \in DOMAIN questionState :
            questionState'[p].status = "notVisited" =>
              questionState[p].status = "notVisited"]_vars

\* C6 witness: a clear ran with every question visited.
C6_ClearedAllVisited ==
  /\ lastEvent \in {"clear", "clearAfterSelect"}
  /\ Len(questionState) = 2
  /\ \A p \in DOMAIN questionState : questionState[p].status # "notVisited"

\* C7: right after a clear the current question is notAnswered with no
\* selection.
C7_ClearResets ==
  lastEvent \in {"clear", "clearAfterSelect"} =>
    questionState[currentIndex + 1] =
      [selectedOptionIndex |-> NULL, status |-> "notAnswered"]

\* C7 witness: a clear directly after a select, on the second question.
C7_ClearedAfterSelect == lastEvent = "clearAfterSelect" /\ currentIndex = 1

\* Some create-attempt call has failed and none has started an attempt.
CreationFailed ==
  /\ \E c \in DOMAIN createCalls : createCalls[c].st = "failed"
  /\ \A c \in DOMAIN createCalls : createCalls[c].st # "started"

\* C8: if attempt creation fails nothing is started: no attempt id, no
\* question states, no fullscreen request pending or granted, and the Clock
\* is not counting down.
C8_NothingStartsOnFailure ==
  CreationFailed =>
    /\ attemptId = NULL
    /\ ~studentDetails
    /\ questionState = <<>>
    /\ ~fsEffectTimer /\ ~fsRetryTimer /\ ~docFullscreen /\ ~isFullscreen
    /\ ~TimerRunning

\* C9: when the attempt id is stored, the remaining time of the loaded exam
\* is its full duration in seconds.
C9_FullDurationAtStart ==
  (lastEvent = "attemptStarted" /\ Len(questions) > 0) =>
    timeRemaining = TotalSeconds(exam.duration_minutes)

\* C10: once timeOver is set, no step changes the selection or the status of
\* any question.
C10_LockedAfterExpiry == [][timeOver => questionState' = questionState]_vars

\* C10 witness: answers were given, the time ran out, and the session went on
\* (the automatic submission was answered).
C10_ExpiredWithAnswers ==
  /\ timeOver
  /\ lastEvent = "autoSubmitOk"
  /\ \E p \in DOMAIN questionState : questionState[p].selectedOptionIndex # NULL

\* The answers of a request are those of the question states: one per exam
\* question, in the exam's order, the selection as an option 1..NumOptions
\* or null.
AnswersMatch(answers, state) ==
  /\ Len(answers) = Len(exam.questions)
  /\ Len(state) = Len(exam.questions)
  /\ \A p \in 1..Len(answers) :
       /\ answers[p].question_id = exam.questions[p].id
       /\ IF state[p].selectedOptionIndex = NULL
            THEN answers[p].selected_option = NULL
            ELSE /\ answers[p].selected_option = state[p].selectedOptionIndex + 1
                 /\ answers[p].selected_option \in 1..NumOptions

C12_OneReportPerLoss ==
  /\ exitReports <= losses
  /\ warnings <= losses
  /\ (TrackingActive /\ ~ExitSeen(isFullscreen)) => exitReports = losses

\* C13: once the session is stopped (submitted or timeOver), no step sends
\* an exit report: not the exit the session performs itself at the stop, and
\* not a loss that is seen afterwards.
C13_NoReportAfterStop ==
  [][(submitted \/ timeOver) => exitReports' = exitReports]_vars

\* C13 witness: the session stopped while the document was out of
\* fullscreen and isFullscreen still set, the situation in which
\* handleFullscreenChange would report an exit.
C13_StoppedWithExitUnseen ==
  /\ submitted \/ timeOver
  /\ ExitSeen(isFullscreen)
  /\ losses = 1
  /\ exitReports = 0

\* The steps in which requestFullscreen() runs.
FsRequestEvents == {"fsEffectTimer", "fsRetryTimer", "fsReenterTimer"}

\* C14: once the session is stopped (submitted or timeOver), requestFullscreen
\* runs no more: no fullscreen request and no retry prompt is issued.
C14_NoRequestAfterStop ==
  [][(submitted \/ timeOver) => lastEvent' \notin FsRequestEvents]_vars

\* C15: a submit request answered with AlreadySubmitted is a success for
\* the session: the step that takes the answer sets no error message and
\* leaves the session submitted.
C15_RefusalIsSuccess ==
  [][/\ (mCall.st = "submitFail" /\ mCall'.st # "submitFail") =>
          (error' = "none" /\ submitted')
     /\ (aCall.st = "submitFail" /\ aCall'.st # "submitFail") =>
          (error' = error /\ submitted')]_vars

\* C16: when the result fetch fails after a successful submit, that step
\* leaves the session submitted with no Result, sets no error and sends no
\* submit request.
C16_ResultFailureKeepsSubmitted ==
  [][lastEvent' \in {"manualResultsFailed", "autoResultsFailed"} =>
       /\ submitted'
       /\ results' = <<>>
       /\ error' = error
       /\ mCall'.st # "submitReq" \/ mCall.st = "submitReq"
       /\ aCall'.st # "submitReq" \/ aCall.st = "submitReq"]_vars

\* C16 witness: the manual path's result fetch has failed; the session is
\* submitted and shows no Result.
C16_ManualResultFetchFailed ==
  /\ lastEvent = "manualResultsFailed"
  /\ submitted
  /\ results = <<>>
  /\ srvAttempts[attemptId].submitted

\* C17: taking the exit report's outcome, success or failure, changes no
\* exam state (question states, current question, remaining time, attempt
\* id, submitted, timeOver), and in both cases the warning is shown and the
\* fullscreen re-request is scheduled.
C17_ReportOutcomeFrame ==
  [][lastEvent' \in {"exitReportOk", "exitReportFailed"} =>
       /\ questionState' = questionState
       /\ currentIndex' = currentIndex
       /\ timeRemaining' = timeRemaining
       /\ attemptId' = attemptId
       /\ submitted' = submitted
       /\ timeOver' = timeOver
       /\ warnings' = warnings + 1
       /\ reenterTimers' = reenterTimers + 1]_vars

\* C17 witness: an exit report failed during an attempt with an answer
\* given; the warning was shown and the re-request is pending.
C17_ReportFailedWithAnswer ==
  /\ lastEvent = "exitReportFailed"
  /\ questionState[1].selectedOptionIndex # NULL
  /\ warnings = 1
  /\ reenterTimers = 1
  /\ srvAttempts[attemptId].fullscreen_exits = 0

\* C18: a fetch-result request is sent only by the step that takes the
\* successful answer of a submit request, for the same attempt, which the
\* service then holds as submitted.
C18_ResultOnlyAfterSubmitOk ==
  [][/\ (mCall'.st = "resultsReq" /\ mCall.st # "resultsReq") =>
          /\ mCall.st = "submitOk"
          /\ mCall'.attempt = mCall.attempt
          /\ srvAttempts[mCall.attempt].submitted
     /\ (aCall'.st = "resultsReq" /\ aCall.st # "resultsReq") =>
          /\ aCall.st = "submitOk"
          /\ aCall'.attempt = aCall.attempt
          /\ srvAttempts[aCall.attempt].submitted]_vars

\* C18 witness: the automatic path has sent its fetch-result request while
\* the manual path's submit request was refused.
C18_ResultRequestedByAuto ==
  /\ aCall.st = "resultsReq"
  /\ mCall.st = "submitFail"
  /\ srvAttempts[aCall.attempt].passes = 1

\* C19: once the session is submitted it stays submitted, and no step
\* starts a submit request, manual or automatic.
C19_NoSubmitOnceSubmitted ==
  [][submitted =>
       /\ submitted'
       /\ mCall' # mCall => mCall'.st # "submitReq"
       /\ aCall' # aCall => aCall'.st # "submitReq"]_vars

\* C19 witness: the manual submit succeeded after the countdown had reached
\* zero, so the auto-submit effect ran again at zero with submitted set.
C19_SubmittedAtZero ==
  /\ submitted
  /\ timeRemaining = 0
  /\ lastEvent = "manualSubmitOk"

\* C20: whenever the countdown is at zero with an attempt in progress that
\* is not submitted, the session eventually is submitted.
C20_ExpiryLeadsToSubmitted ==
  (timeRemaining = 0 /\ Truthy(attemptId) /\ ~submitted) ~> submitted

\* C21: every mark-for-review step on the current question ("Save & Mark for
\* Review" and "Mark for Review & Next") leaves its selection unchanged and
\* sets its status to answeredMarked if it has a selection and to marked if
\* it has none.
C21_MarkForReview ==
  [][lastEvent' \in {"saveAndMark", "markAndNext"} =>
       LET p == currentIndex + 1
       IN /\ questionState'[p].selectedOptionIndex = questionState[p].selectedOptionIndex
          /\ questionState'[p].status =
               IF questionState[p].selectedOptionIndex # NULL
                 THEN "answeredMarked" ELSE "marked"]_vars

\* C22: selecting an option on the current question records that option,
\* changes the question's status to answered when it was notVisited or
\* notAnswered and leaves it unchanged when it was answered, marked or
\* answeredMarked; no other question and not the current index change.
C22_SelectOption ==
  [][\A o \in 0..(NumOptions - 1) :
       HandleSelectOption(o) =>
         LET p == currentIndex + 1
         IN /\ questionState'[p].selectedOptionIndex = o
            /\ questionState'[p].status =
                 IF questionState[p].status \in {"notVisited", "notAnswered"}
                   THEN "answered" ELSE questionState[p].status
            /\ DOMAIN questionState' = DOMAIN questionState
            /\ \A r \in DOMAIN questionState : r # p => questionState'[r] = questionState[r]
            /\ currentIndex' = currentIndex]_vars

\* C22 witness: the last option was selected on the second question, which
\* was marked and stays marked, while the first question holds an answer.
C22_SelectedOnMarked ==
  /\ lastEvent = "select"
  /\ currentIndex = 1
  /\ questionState[2] = [selectedOptionIndex |-> NumOptions - 1, status |-> "marked"]
  /\ questionState[1].status = "answered"

\* C23: marked-with-answer semantics hold in every reachable state: no
\* question has status marked together with a selection, and no question has
\* status answeredMarked without a selection.
C23_MarkedWithAnswer ==
  \A p \in DOMAIN questionState :
    /\ questionState[p].status = "marked" => questionState[p].selectedOptionIndex = NULL
    /\ questionState[p].status = "answeredMarked" =>
         questionState[p].selectedOptionIndex # NULL

\* The steps of Back, Next, Save & Next and the palette.
NavigationEvents == {"palette", "back", "next", "saveAndNext"}

\* C24: a navigation step (Back, Next, Save & Next, the palette) turns the
\* status of the question left and of the question entered from notVisited
\* into notAnswered and changes nothing else: every other status, every
\* selection and every other question stay as they were.
C24_NavigationFrame ==
  [][lastEvent' \in NavigationEvents =>
       /\ DOMAIN questionState' = DOMAIN questionState
       /\ \A p \in DOMAIN questionState :
            /\ questionState'[p].selectedOptionIndex = questionState[p].selectedOptionIndex
            /\ questionState'[p].status =
                 IF /\ p \in {currentIndex + 1, currentIndex' + 1}
                    /\ questionState[p].status = "notVisited"
                   THEN "notAnswered" ELSE questionState[p].status]_vars

\* C24 witness: Next has entered the second question, now notAnswered, from
\* the first, which keeps its answer.
C24_EnteredSecond ==
  /\ lastEvent = "next"
  /\ currentIndex = 1
  /\ questionState[2] = [selectedOptionIndex |-> NULL, status |-> "notAnswered"]
  /\ questionState[1] = [selectedOptionIndex |-> 0, status |-> "answered"]

C26_DeclinedChangesNothing ==
  [][lastEvent' = "submitDeclined" =>
       /\ mCall' = mCall
       /\ aCall' = aCall
       /\ srvAttempts' = srvAttempts
       /\ submitting' = submitting
       /\ submitted' = submitted
       /\ error' = error
       /\ questionState' = questionState]_vars

\* C26 witness: the confirmation was declined with an answer given and no
\* submit request sent on either path.
C26_DeclinedWithAnswer ==
  /\ lastEvent = "submitDeclined"
  /\ questionState[1].selectedOptionIndex # NULL
  /\ ~Sent(mCall) /\ ~Sent(aCall)
  /\ ~submitting /\ ~submitted

\* C27: the Clock is not paused by proctoring or network activity: whenever
\* the remaining time is above zero and the session is neither submitted nor
\* expired, a tick of the countdown is enabled, whether or not fullscreen is
\* lost, an exit warning awaits its acknowledgment, a fullscreen re-request
\* is pending or a create, submit, exit-report or result call is in flight.
C27_ClockNotPaused ==
  (~loading /\ timeRemaining > 0 /\ ~submitted /\ ~timeOver) => ENABLED Tick

\* C28: at most one create-attempt request is sent in a session, the service
\* creates at most one attempt for it, and the stored attempt id, once set,
\* never changes; submitting the form again while the first request is in
\* flight creates no second attempt.
C28_OneCreateRequest ==
  [][/\ Len(createCalls') <= 1
     /\ Len(srvAttempts') <= 1
     /\ Truthy(attemptId) => attemptId' = attemptId]_vars

\* The manual submit request was sent and its answer has not been taken.
ManualSubmitInFlight == mCall.st \in {"submitReq", "submitOk", "submitFail"}

\* C29: between the sending of a manual submit request and its completion
\* no step changes the selection or the status of any question, so the
\* answers the session holds when the request makes it submitted are the
\* answers that were sent.
C29_AnswersFrozenWhileSubmitting ==
  [][ManualSubmitInFlight =>
       /\ questionState' = questionState
       /\ (submitted' /\ ~submitted /\ lastEvent' = "manualSubmitOk") =>
            AnswersMatch(mCall.answers, questionState')]_vars

\* C30: in every reachable state a question with status notVisited or
\* notAnswered has no selection and a question with status answered has one.
C30_StatusMatchesSelection ==
  \A p \in DOMAIN questionState :
    /\ questionState[p].status \in {"notVisited", "notAnswered"} =>
         questionState[p].selectedOptionIndex = NULL
    /\ questionState[p].status = "answered" =>
         questionState[p].selectedOptionIndex \in 0..(NumOptions - 1)

\* C30 witness: on the second question an option was selected and cleared
\* again, while the first question is answered.
C30_AnsweredAndCleared ==
  /\ lastEvent = "clearAfterSelect"
  /\ currentIndex = 1
  /\ questionState[2] = [selectedOptionIndex |-> NULL, status |-> "notAnswered"]
  /\ questionState[1].status = "answered"
  /\ questionState[1].selectedOptionIndex # NULL
====
